---- MODULE Spec2Model ----
(***************************************************************************)
(* A model of the graph executor of agentic/langgraph_stub.py (StateGraph  *)
(* and _CompiledGraph) and of the state coercion that                      *)
(* HealthcareMultiAgentSystem.run applies to what the executor returns.    *)
(*                                                                         *)
(* Python objects that are shared by reference live on heaps: the two      *)
(* dicts of a builder in dictHeap, the state objects of an invocation in   *)
(* heap.  A compiled graph holds references to the builder's dicts, as     *)
(* StateGraph.compile passes self.nodes and self.edges themselves.         *)
(***************************************************************************)
EXTENDS Integers, Sequences, FiniteSets, TLC

VARIABLES
    builder,    \* the StateGraph: [nodes, edges: dict references, entry_point]
    dictHeap,   \* the dict objects: reference -> dict (a function)
    compiled,   \* what the latest compile() gave: NoGraph, CompileError, or a graph
    inv,        \* per caller slot: the frame of its invoke / run call
    heap,       \* per caller slot: the state objects allocated by that call
    cin,        \* argument of a direct _coerce_graph_state call
    cout,       \* its outcome
    blog,       \* the builder calls made so far, in order
    orch,       \* the collaborators of the orchestrator's steps during a run
    ck,         \* one chunk_text call: its arguments, locals and position
    store,      \* the SimpleVectorStore: its _documents list
    srch,       \* per searcher: one similarity_search call
    pipe        \* the HealthcareRAGPipeline: its configuration and last call

vars == <<builder, dictHeap, compiled, inv, heap, cin, cout, blog, orch, ck, store, srch, pipe>>

\* The variables of the graph executor and of the retrieval components.
graphVars == <<builder, dictHeap, compiled, inv, heap, cin, cout, blog, orch>>
ragVars == <<ck, store, srch, pipe>>

-----------------------------------------------------------------------------
(* Bounds of the model.                                                    *)

\* Most step-function calls one invocation makes before the model stops
\* following it (a cyclic edge map makes invoke loop for ever).
MaxSteps == 4

-----------------------------------------------------------------------------
(* Python values.                                                          *)

None == "None"
END == "__END__"

\* bool(x) of a str-or-None value.
Truthy(x) == x # None /\ x # ""

EmptyDict == [k \in {} |-> ""]

\* d.setdefault(k, v): the first value given for a key stays.
DictSetDefault(d, k, v) == [x \in (DOMAIN d) \cup {k} |-> IF x \in DOMAIN d THEN d[x] ELSE v]

\* d[k] = v
DictSet(d, k, v) == [x \in (DOMAIN d) \cup {k} |-> IF x = k THEN v ELSE d[x]]

\* d.get(k, default)
DictGet(d, k, default) == IF k \in DOMAIN d THEN d[k] ELSE default

\* A field value: t is the Python type, v names its content, p the passages
\* of a RetrievedContext ("" is the empty list).
PyVal(t, v, p) == [t |-> t, v |-> v, p |-> p]
PyNone == PyVal("NoneType", "", "")
PyStrOf(s) == PyVal("str", s, "")
PyIntOf(s) == PyVal("int", s, "")
PyDictOf(items) == PyVal("dict", items, "")
PyObjectOf(attrs) == PyVal("object", attrs, "")
PyPairsOf(items) == PyVal("list", items, "")
PyContext(question, passages) == PyVal("RetrievedContext", question, passages)
PyAgentOutput(role) == PyVal("AgentOutput", role, "")

-----------------------------------------------------------------------------
(* The canonical structured state and its coercion (orchestrator.py).      *)

OutputFields ==
    {"triage", "program_eligibility", "facility_finder",
     "follow_up", "health_analytics", "knowledge"}

\* The fields of the dataclass HealthcareGraphState.
FieldNames == {"patient_query", "citizen_profile", "retrieved_context"} \cup OutputFields

\* A state value: a HealthcareGraphState instance (fields total on
\* FieldNames), a dict (fields on the keys it holds) or an object of
\* another type.
StateVal(type, fields) == [type |-> type, fields |-> fields]

\* An exception of the named type leaving _coerce_graph_state.
Raised(type) == StateVal(type, EmptyDict)

IsRaised(s) == s.type \in {"TypeError", "ValueError"}

\* HealthcareGraphState(patient_query=..., citizen_profile=..., retrieved_context=...)
\* with the six outputs at their default None.
NewGraphState(query, profile, context) ==
    StateVal("HealthcareGraphState",
        [f \in FieldNames |->
            CASE f = "patient_query" -> query
              [] f = "citizen_profile" -> profile
              [] f = "retrieved_context" -> context
              [] OTHER -> PyNone])

\* str(x) for the values a patient_query key is given here.
PyStr(x) == IF x.t = "NoneType" THEN "None" ELSE x.v

\* hasattr(x, "__dict__")
HasDict(x) == x.t = "object"

\* dict(x) for a value that is not a dict: an iterable of pairs converts, the
\* empty string is an empty iterable, other strings and non-iterables raise.
PyDictCall(x) ==
    CASE x.t = "list" -> PyDictOf(x.v)
      [] x.t = "str" /\ x.v = "" -> PyDictOf("")
      [] x.t = "str" -> PyVal("ValueError", "", "")
      [] OTHER -> PyVal("TypeError", "", "")

\* The raw citizen_profile with the None case left out, falling through to dict(None).
CoerceProfileNoNone(raw) ==
    CASE raw.t = "dict" -> PyDictOf(raw.v)
      [] HasDict(raw) -> PyDictOf(raw.v)
      [] OTHER -> PyDictCall(raw)

\* The citizen_profile of the coerced state.
CoerceProfile(raw) ==
    CASE raw.t = "dict" -> PyDictOf(raw.v)
      [] raw.t = "NoneType" -> PyDictOf("")
      [] HasDict(raw) -> PyDictOf(raw.v)
      [] OTHER -> PyDictCall(raw)

\* The retrieved_context of the coerced state.
CoerceContext(m) ==
    LET rc == DictGet(m, "retrieved_context", PyNone)
    IN  IF rc.t = "RetrievedContext"
        THEN rc
        ELSE PyContext(PyStr(DictGet(m, "patient_query", PyStrOf(""))), "")

\* A coercion that hands a dict back as it is.
CoerceGraphStateIdentity(s) == s

\* _coerce_graph_state(state)
CoerceGraphState(s) ==
    IF s.type = "HealthcareGraphState" THEN s
    ELSE IF s.type = "dict" THEN
        LET context == CoerceContext(s.fields)
            profile == CoerceProfile(DictGet(s.fields, "citizen_profile", PyNone))
        IN  IF profile.t \in {"TypeError", "ValueError"}
            THEN Raised(profile.t)
            ELSE StateVal("HealthcareGraphState",
                    [f \in FieldNames |->
                        CASE f = "patient_query" ->
                                PyStrOf(PyStr(DictGet(s.fields, "patient_query", PyStrOf(""))))
                          [] f = "citizen_profile" -> profile
                          [] f = "retrieved_context" -> context
                          [] OTHER -> DictGet(s.fields, f, PyNone)])
    ELSE Raised("TypeError")

-----------------------------------------------------------------------------
(* The graph builder and the compiled graph (langgraph_stub.py).           *)

StepNames == {"A", "B", "C"}

\* What a registered step function does with the state it is given: "same"
\* changes it in place and returns it, "mapping" returns a new dict, "raise"
\* raises.
FnKinds == {"same", "mapping", "raise"}

\* The references of the two dicts a StateGraph creates.
NodesRef == "nodes0"
EdgesRef == "edges0"

\* StateGraph.__init__
NewBuilder == [nodes |-> NodesRef, edges |-> EdgesRef, entry_point |-> None]

GraphVal(kind, entry, nodes, edges) ==
    [kind |-> kind, entry_point |-> entry, nodes |-> nodes, edges |-> edges]

\* No compile() call was made yet.
NoGraph == GraphVal("none", None, "", "")

\* compile() raised ValueError.
CompileError == GraphVal("ValueError", None, "", "")

\* The dict a reference of a graph or builder points to.
Deref(ref) == dictHeap[ref]

\* A compile that does not look at the entry point.
CompileFailsNever(b) == FALSE

\* `if not self.entry_point`
CompileFails(b) == ~Truthy(b.entry_point)

\* _CompiledGraph(entry_point=self.entry_point, nodes=self.nodes, edges=self.edges)
CompileResult(b) ==
    IF CompileFails(b)
    THEN CompileError
    ELSE GraphVal("graph", b.entry_point, b.nodes, b.edges)

-----------------------------------------------------------------------------
(* State objects and step functions.                                       *)

\* The caller slots: each holds at most one invoke / run call at a time.
InvSlots == {1, 2}

\* A reference to a state object: <<slot that allocated it, index in heap[slot]>>.
NoObj == <<0, 0>>

ObjAt(ref) == heap[ref[1]][ref[2]]

\* A state object: its type, its fields, and the names of the steps that
\* have written to it, in order.
StateObj(type, fields, log) == [type |-> type, fields |-> fields, log |-> log]

NoError == [type |-> "", node |-> ""]

\* The error a "raise" step function raises at step n.
StepError(n) == [type |-> "StepError", node |-> n]

\* The state `run` builds for one call (orchestrator.py, initial_state).
InitialState ==
    NewGraphState(PyStrOf("q"), PyDictOf("city=Lahore"), PyContext("q", ""))

\* The dict a "mapping" step function returns: it holds the query only.
LooseFields == [k \in {"patient_query"} |-> PyStrOf("q")]

\* One executed call of a step function: the step, its function, the object
\* it was given and the object it returned (NoObj when it raised).
CallRec(node, fn, arg, ret, ok) ==
    [node |-> node, fn |-> fn, arg |-> arg, ret |-> ret, ok |-> ok]

\* The step functions of the orchestrator, by the step _build_graph
\* registers them for.
OrchNodes ==
    [n \in {"triage", "eligibility", "facility", "follow_up", "analytics", "knowledge"} |->
        CASE n = "triage" -> "_triage_node"
          [] n = "eligibility" -> "_program_eligibility_node"
          [] n = "facility" -> "_facility_node"
          [] n = "follow_up" -> "_follow_up_node"
          [] n = "analytics" -> "_analytics_node"
          [] OTHER -> "_knowledge_node"]

OrchFns == {OrchNodes[n] : n \in DOMAIN OrchNodes}

\* The field of the state each of them assigns its output to.
FieldOf(fn) ==
    CASE fn = "_triage_node" -> "triage"
      [] fn = "_program_eligibility_node" -> "program_eligibility"
      [] fn = "_facility_node" -> "facility_finder"
      [] fn = "_follow_up_node" -> "follow_up"
      [] fn = "_analytics_node" -> "health_analytics"
      [] OTHER -> "knowledge"

\* The repository call each of them makes before its agent's run().
DataCall(fn) ==
    CASE fn = "_triage_node" -> "match_triage"
      [] fn = "_program_eligibility_node" -> "evaluate_programs"
      [] fn = "_facility_node" -> "recommend_facilities"
      [] fn = "_follow_up_node" -> "create_follow_up_plan"
      [] fn = "_analytics_node" -> "calculate_health_trends"
      [] OTHER -> "detect_knowledge_alerts"

\* profile.get("city") for the profiles of the model.
ProfileCity(profile) ==
    CASE profile.v = "city=Lahore" -> "Lahore"
      [] profile.v = "city=Multan" -> "Multan"
      [] profile.v = "city= " -> " "
      [] OTHER -> None

\* bool((profile.get("city") or "").strip())
CityGiven(profile) == ProfileCity(profile) \notin {None, "", " "}

\* A facility step that goes on without a city.
CallsAgentAlways(fn, obj) == TRUE

\* Whether the step function calls its collaborators on this state: the
\* facility step returns early when the profile names no city.
CallsAgent(fn, obj) == fn # "_facility_node" \/ CityGiven(obj.fields["citizen_profile"])

\* A facility step that leaves its field alone when the city is missing.
OutputOfNoPlaceholder(fn, obj) ==
    IF CallsAgent(fn, obj) THEN PyAgentOutput(FieldOf(fn)) ELSE PyNone

\* The AgentOutput the step function assigns: its agent's, or the
\* placeholder of the facility step, whose metadata is
\* {"facility_options": [], "needs_city": True}.
OutputOf(fn, obj) ==
    IF CallsAgent(fn, obj)
    THEN PyAgentOutput(FieldOf(fn))
    ELSE PyVal("AgentOutput", FieldOf(fn), "facility_options=[],needs_city=True")

\* One call of a collaborator by a step function.
ExtCall(fn, call) == [by |-> fn, call |-> call]

\* The generation service raises on the call of the step orch.fail names.
FnRaises(fn, arg) ==
    \/ fn = "raise"
    \/ fn \in OrchFns /\ CallsAgent(fn, ObjAt(arg)) /\ orch.fail = fn

\* The collaborators after the step function ran: the repository call,
\* then the generation call of BaseHealthcareAgent.run.
OrchAfterCall(fn, arg) ==
    IF fn \in OrchFns /\ CallsAgent(fn, ObjAt(arg))
    THEN [orch EXCEPT !.ext = @ \o <<ExtCall(fn, DataCall(fn)), ExtCall(fn, "generate")>>]
    ELSE orch

\* Step functions of the orchestrator that clear the triage output when
\* they set their own.
HeapAfterCallResets(i, fn, node, arg) ==
    IF fn \in OrchFns /\ ~FnRaises(fn, arg)
    THEN [heap EXCEPT ![arg[1]][arg[2]] =
            [@ EXCEPT !.fields = DictSet(DictSet(@, "triage", PyNone), FieldOf(fn),
                                         OutputOf(fn, ObjAt(arg))),
                      !.log = Append(@, node)]]
    ELSE heap

\* The heaps after function fn, registered for step `node`, ran in slot i on
\* the object `arg`.
HeapAfterCall(i, fn, node, arg) ==
    CASE fn \in OrchFns /\ ~FnRaises(fn, arg) ->
            [heap EXCEPT ![arg[1]][arg[2]] =
                [@ EXCEPT !.fields = DictSet(@, FieldOf(fn), OutputOf(fn, ObjAt(arg))),
                          !.log = Append(@, node)]]
      [] fn = "same" ->
            [heap EXCEPT ![arg[1]][arg[2]].log = Append(@, node)]
      [] fn = "mapping" ->
            [heap EXCEPT ![i] =
                Append(@, StateObj("dict", LooseFields, Append(ObjAt(arg).log, node)))]
      [] OTHER -> heap

\* What that function returns.
ReturnOfCall(i, fn, arg) ==
    CASE fn \in OrchFns /\ ~FnRaises(fn, arg) -> arg
      [] fn = "same" -> arg
      [] fn = "mapping" -> <<i, Len(heap[i]) + 1>>
      [] OTHER -> NoObj

-----------------------------------------------------------------------------
(* _CompiledGraph.invoke, one loop iteration per step.                     *)

Frame(status, current, state, initial, calls, result, error, final) ==
    [status |-> status, current |-> current, state |-> state,
     initial |-> initial, calls |-> calls, result |-> result,
     error |-> error, final |-> final]

NoFinal == StateVal("", EmptyDict)

IdleFrame == Frame("idle", None, NoObj, NoObj, <<>>, NoObj, NoError, NoFinal)

\* `current = self.entry_point` with the state the caller passes.
StartFrame(g, init) ==
    Frame("running", g.entry_point, init, init, <<>>, NoObj, NoError, NoFinal)

\* A loop condition that forgets the END sentinel.
LoopContinuesNoEnd(current) == Truthy(current)

\* A loop condition that forgets the empty name.
LoopContinuesNoEmpty(current) == current # None /\ current # END

\* `while current and current != END`
LoopContinues(current) == Truthy(current) /\ current # END

\* An edge lookup that stays on the step when it has no edge.
NextNodeStay(edges, current) == DictGet(edges, current, current)

\* `self.edges.get(current, END)`
NextNode(edges, current) == DictGet(edges, current, END)

\* `raise ValueError(f"Unknown node '{current}' in graph")`
UnknownStepError(n) == [type |-> "ValueError", node |-> n]

\* An unknown step that ends the loop as if it were terminal.
OnUnknownNodeStop(f) == [f EXCEPT !.current = END]

\* The frame after the unknown-node check failed.
OnUnknownNode(f) ==
    [f EXCEPT !.status = "raised", !.error = UnknownStepError(f.current)]

\* A call that always passes the state invoke was started with.
CallArgInitial(f) == f.initial

\* A call that reads the state from a place all invocations share (here:
\* the state of the first running invocation) instead of its own local.
CallArgShared(f) ==
    LET running == {j \in InvSlots : inv[j].status = "running"}
    IN  IF running = {} THEN f.state
        ELSE inv[CHOOSE j \in running : \A k \in running : j <= k].state

\* The argument of `self.nodes[current](state)`: the local `state`.
CallArg(f) == f.state

\* A failing step that is swallowed: the loop goes on with the old state.
OnStepRaiseSwallow(f, edges, call, e) ==
    [f EXCEPT !.current = NextNode(edges, call.node), !.calls = Append(@, call)]

\* The frame after the step function raised e: nothing catches it.
OnStepRaise(f, edges, call, e) ==
    [f EXCEPT !.status = "raised", !.error = e, !.calls = Append(@, call)]

\* The frame after the step function returned: `state = ...; current = ...`.
OnStepReturn(f, edges, call) ==
    [f EXCEPT !.state = call.ret,
              !.current = NextNode(edges, call.node),
              !.calls = Append(@, call)]

\* A return that hands back the state invoke was started with.
OnReturnInitial(f) == [f EXCEPT !.status = "returned", !.result = f.initial]

\* `return state`
OnReturn(f) == [f EXCEPT !.status = "returned", !.result = f.state]

-----------------------------------------------------------------------------
(* The operations.                                                         *)

\* Builder calls are made by the code that constructs the graph, between
\* invocations: invoke runs to completion before its caller goes on.
AllIdle == \A i \in InvSlots : inv[i].status = "idle"

\* Most builder calls a recorded construction makes.
MaxBuilderCalls == 4

\* One call made on the builder: add_node(a, b), add_edge(a, b),
\* set_entry_point(a) or compile().
BuilderCall(op, a, b) == [op |-> op, a |-> a, b |-> b]

\* The record of builder calls: while it is on, every builder call is appended.
NoLog == [on |-> FALSE, calls |-> <<>>]

LogCall(c) ==
    /\ blog.on => Len(blog.calls) < MaxBuilderCalls
    /\ blog' = IF blog.on THEN [blog EXCEPT !.calls = Append(@, c)] ELSE blog

\* add_node(name, fn)
AddNode(name, fn) ==
    /\ AllIdle
    /\ dictHeap' = [dictHeap EXCEPT ![builder.nodes] = DictSet(@, name, fn)]
    /\ LogCall(BuilderCall("add_node", name, fn))
    /\ UNCHANGED <<builder, compiled, inv, heap, cin, cout, orch, ragVars>>

\* add_edge(source, target)
AddEdge(source, target) ==
    /\ AllIdle
    /\ dictHeap' = [dictHeap EXCEPT ![builder.edges] = DictSet(@, source, target)]
    /\ LogCall(BuilderCall("add_edge", source, target))
    /\ UNCHANGED <<builder, compiled, inv, heap, cin, cout, orch, ragVars>>

\* set_entry_point(name)
SetEntryPoint(name) ==
    /\ AllIdle
    /\ builder' = [builder EXCEPT !.entry_point = name]
    /\ LogCall(BuilderCall("set_entry_point", name, ""))
    /\ UNCHANGED <<dictHeap, compiled, inv, heap, cin, cout, orch, ragVars>>

\* compile(): the caller keeps what it returns, or sees the ValueError.
Compile ==
    /\ AllIdle
    /\ compiled' = CompileResult(builder)
    /\ LogCall(BuilderCall("compile", "", ""))
    /\ UNCHANGED <<builder, dictHeap, inv, heap, cin, cout, orch, ragVars>>

\* run(): a fresh initial state, then self.graph.invoke(initial_state).
Invoke(i) ==
    /\ compiled.kind = "graph"
    /\ inv[i].status = "idle"
    /\ heap' = [heap EXCEPT ![i] = <<StateObj(InitialState.type, InitialState.fields, <<>>)>>]
    /\ inv' = [inv EXCEPT ![i] = StartFrame(compiled, <<i, 1>>)]
    /\ UNCHANGED <<builder, dictHeap, compiled, cin, cout, blog, orch, ragVars>>

\* The loop condition is false: invoke returns.
InvokeReturn(i) ==
    /\ inv[i].status = "running"
    /\ ~LoopContinues(inv[i].current)
    /\ inv' = [inv EXCEPT ![i] = OnReturn(@)]
    /\ UNCHANGED <<builder, dictHeap, compiled, heap, cin, cout, blog, orch, ragVars>>

\* The current name is not in the node table.
InvokeUnknown(i) ==
    /\ inv[i].status = "running"
    /\ LoopContinues(inv[i].current)
    /\ inv[i].current \notin DOMAIN Deref(compiled.nodes)
    /\ inv' = [inv EXCEPT ![i] = OnUnknownNode(@)]
    /\ UNCHANGED <<builder, dictHeap, compiled, heap, cin, cout, blog, orch, ragVars>>

\* The current step's function is called and the edge map is followed.
InvokeCall(i) ==
    /\ inv[i].status = "running"
    /\ LoopContinues(inv[i].current)
    /\ inv[i].current \in DOMAIN Deref(compiled.nodes)
    /\ \/ Len(inv[i].calls) < MaxSteps
       \/ \A k \in 1..Len(inv[i].calls) : inv[i].calls[k].node # inv[i].current
    /\ LET f == inv[i]
           node == f.current
           fn == Deref(compiled.nodes)[node]
           edges == Deref(compiled.edges)
           arg == CallArg(f)
           ret == ReturnOfCall(i, fn, arg)
           call == CallRec(node, fn, arg, ret, ~FnRaises(fn, arg))
       IN  /\ heap' = HeapAfterCall(i, fn, node, arg)
           /\ orch' = OrchAfterCall(fn, arg)
           /\ inv' = [inv EXCEPT ![i] =
                        IF FnRaises(fn, arg)
                        THEN OnStepRaise(f, edges, call, StepError(node))
                        ELSE OnStepReturn(f, edges, call)]
    /\ UNCHANGED <<builder, dictHeap, compiled, cin, cout, blog, ragVars>>

\* run(): final_state = self._coerce_graph_state(<what invoke returned>).
RunCoerce(i) ==
    /\ inv[i].status = "returned"
    /\ LET obj == ObjAt(inv[i].result)
           final == CoerceGraphState(StateVal(obj.type, obj.fields))
       IN  inv' = [inv EXCEPT ![i] =
                    IF IsRaised(final)
                    THEN [@ EXCEPT !.status = "raised",
                                   !.error = [type |-> final.type, node |-> ""]]
                    ELSE [@ EXCEPT !.status = "coerced", !.final = final]]
    /\ UNCHANGED <<builder, dictHeap, compiled, heap, cin, cout, blog, orch, ragVars>>

\* bool(x) of a field value: None and empty strings, dicts and lists are
\* false; an AgentOutput, a dataclass without __bool__ or __len__, is true.
PyTruthy(x) ==
    CASE x.t = "NoneType" -> FALSE
      [] x.t \in {"str", "dict", "list"} -> x.v # ""
      [] OTHER -> TRUE

\* The three assert statements of run().
AssertsHold(final) == \A f \in OutputFields : PyTruthy(final.fields[f])

\* run(): the assertions on final_state, then the report is composed.
RunAssert(i) ==
    /\ inv[i].status = "coerced"
    /\ inv' = [inv EXCEPT ![i] =
                IF AssertsHold(@.final)
                THEN [@ EXCEPT !.status = "reported"]
                ELSE [@ EXCEPT !.status = "raised",
                               !.error = [type |-> "AssertionError", node |-> ""]]]
    /\ UNCHANGED <<builder, dictHeap, compiled, heap, cin, cout, blog, orch, ragVars>>

\* run() is over: it returned its report or let the error through.
RunEnd(i) ==
    /\ inv[i].status \in {"reported", "raised"}
    /\ inv' = [inv EXCEPT ![i] = IdleFrame]
    /\ heap' = [heap EXCEPT ![i] = <<>>]
    /\ UNCHANGED <<builder, dictHeap, compiled, cin, cout, blog, orch, ragVars>>

-----------------------------------------------------------------------------
(* The specification of the builder and one caller.                        *)

NoCoerceCall == StateVal("", EmptyDict)

\* No run of the orchestrator is under way: no collaborator fails, none
\* has been called.
NoOrch == [fail |-> "", ext |-> <<>>]

\* No chunk_text call is under way.
IdleChunker ==
    [pc |-> "idle", text |-> <<>>, chunk_size |-> 0, overlap |-> 0,
     words |-> <<>>, start |-> 0, chunks |-> <<>>]

\* SimpleVectorStore.__init__: `self._documents = []`; `offered` counts the
\* chunks callers have passed to add_documents, which names them.
EmptyStore == [documents |-> <<>>, offered |-> 0]

\* The callers of similarity_search.
Searchers == {1, 2}

\* No similarity_search call is under way.
IdleSearch ==
    [pc |-> "idle", query |-> <<>>, top_k |-> 0, scored |-> <<>>,
     result |-> <<>>, calls |-> 0, first |-> <<>>]

\* What the last call on the pipeline gave its caller: nothing yet, a
\* RetrievedContext (retrieve), a dict (describe) or None (ingest_corpus).
\* What the last call on the pipeline gave: `kind` is the type of the value
\* returned or of the exception raised, `arg` the arguments of a retrieve.
PipeOut(kind, arg, question, passages, fields) ==
    [kind |-> kind, arg |-> arg, question |-> question, passages |-> passages,
     fields |-> fields]
NoOut == PipeOut("", <<>>, <<>>, <<>>, EmptyDict)

\* No HealthcareRAGPipeline was constructed yet.
NoPipeline ==
    [made |-> "no", given |-> "", path |-> "", chunk_size |-> 0, chunk_overlap |-> 0,
     ingests |-> 0, out |-> NoOut]

Init ==
    /\ builder = NewBuilder
    /\ dictHeap = [r \in {NodesRef, EdgesRef} |-> EmptyDict]
    /\ compiled = NoGraph
    /\ inv = [i \in InvSlots |-> IdleFrame]
    /\ heap = [i \in InvSlots |-> <<>>]
    /\ cin = NoCoerceCall
    /\ cout = NoCoerceCall
    /\ blog = NoLog
    /\ orch = NoOrch
    /\ ck = IdleChunker
    /\ store = EmptyStore
    /\ srch = [s \in Searchers |-> IdleSearch]
    /\ pipe = NoPipeline

Next ==
    \/ \E n \in StepNames, fn \in FnKinds : AddNode(n, fn)
    \/ \E s \in StepNames, t \in StepNames \cup {END} : AddEdge(s, t)
    \/ \E n \in StepNames : SetEntryPoint(n)
    \/ Compile
    \/ Invoke(1)
    \/ InvokeReturn(1)
    \/ InvokeUnknown(1)
    \/ InvokeCall(1)
    \/ RunCoerce(1)
    \/ RunAssert(1)
    \/ RunEnd(1)

Spec == Init /\ [][Next]_vars

\* invoke is a synchronous loop: an iteration that can be taken is taken.
FairSpec == Spec /\ WF_vars(InvokeReturn(1) \/ InvokeUnknown(1) \/ InvokeCall(1))

-----------------------------------------------------------------------------
(* Vocabulary of the properties.                                           *)

\* The node table and edge map the compiled graph sees.
Nodes == Deref(compiled.nodes)
Edges == Deref(compiled.edges)

Active(i) == inv[i].status # "idle"

Returned(i) == inv[i].status \in {"returned", "coerced", "reported"}

\* The step names of the calls made so far, in order.
NodeSeq(calls) == [k \in 1..Len(calls) |-> calls[k].node]

IsPrefix(s, t) == Len(s) <= Len(t) /\ \A k \in 1..Len(s) : s[k] = t[k]

NoRepeat(s) == \A j, k \in 1..Len(s) : s[j] = s[k] => j = k

\* The calls follow the edge chain from the entry point.
FollowsChain(i) ==
    LET calls == inv[i].calls
    IN  \A k \in 1..Len(calls) :
            calls[k].node = IF k = 1 THEN compiled.entry_point
                            ELSE NextNode(Edges, calls[k-1].node)

\* The name execution has reached: the entry point, or the edge target of
\* the last step that ran.
Reached(i) ==
    LET calls == inv[i].calls
    IN  IF calls = <<>> THEN compiled.entry_point
        ELSE NextNode(Edges, calls[Len(calls)].node)

LastOk(i) ==
    LET calls == inv[i].calls
    IN  calls = <<>> \/ calls[Len(calls)].ok

ChainABC == <<"A", "B", "C">>

\* Entry A, nodes A, B, C with functions that return, edges A->B and B->C,
\* and no edge out of C.
GraphABC ==
    /\ compiled.kind = "graph"
    /\ compiled.entry_point = "A"
    /\ DOMAIN Nodes = {"A", "B", "C"}
    /\ \A n \in DOMAIN Nodes : Nodes[n] # "raise"
    /\ DOMAIN Edges = {"A", "B"}
    /\ Edges["A"] = "B"
    /\ Edges["B"] = "C"

-----------------------------------------------------------------------------
\* At every moment of an invocation of the graph A->B->C the steps run are a
\* prefix of A, B, C, the next step is the next of the three, invoke raises
\* no error (the only one is run's AssertionError on the state invoke
\* returned after A, B, C), and after C the loop condition is false.
ChainABCInOrder ==
    \A i \in InvSlots :
        (GraphABC /\ Active(i)) =>
            LET f == inv[i]
                n == Len(f.calls)
            IN  /\ IsPrefix(NodeSeq(f.calls), ChainABC)
                /\ f.status = "raised" =>
                        f.error.type = "AssertionError" /\ NodeSeq(f.calls) = ChainABC
                /\ (f.status = "running" /\ n < 3) => f.current = ChainABC[n + 1]
                /\ (f.status = "running" /\ n = 3) => ~LoopContinues(f.current)
                /\ Returned(i) => NodeSeq(f.calls) = ChainABC

(* C1: an invocation of the graph A->B->C (no edge out of C) terminates    *)
(* after running A, B, C exactly once each, in that order: the steps run   *)
(* are always a prefix of A, B, C, and a running invocation leads to one   *)
(* that has returned with exactly A, B, C run.                             *)
C1_ChainABCRunsOnceInOrder ==
    /\ []ChainABCInOrder
    /\ (GraphABC /\ inv[1].status = "running")
            ~> (inv[1].status = "returned" /\ NodeSeq(inv[1].calls) = ChainABC)

C1_Witness ==
    /\ GraphABC
    /\ inv[1].status = "returned"
    /\ NodeSeq(inv[1].calls) = ChainABC

(* C2: the first step is called with the initial state, every later step   *)
(* with the very object its predecessor returned, and invoke returns the   *)
(* object the last executed step returned.                                 *)
C2_StateThreadedByReference ==
    \A i \in InvSlots :
        Active(i) =>
            LET f == inv[i]
                n == Len(f.calls)
            IN  /\ \A k \in 1..n :
                        f.calls[k].arg = IF k = 1 THEN f.initial ELSE f.calls[k-1].ret
                /\ Returned(i) =>
                        f.result = IF n = 0 THEN f.initial ELSE f.calls[n].ret

C2_Witness ==
    /\ inv[1].status = "returned"
    /\ Len(inv[1].calls) = 3
    /\ inv[1].calls[1].ret # inv[1].initial
    /\ inv[1].calls[2].arg = inv[1].calls[1].ret
    /\ inv[1].calls[3].ret # inv[1].calls[2].ret

(* C3: a step that returned and has no outgoing edge, or whose edge points *)
(* to END, is the last step called: the loop condition is false after it   *)
(* and invoke returns the state that step returned.                        *)
C3_StopsAtMissingEdgeAndAtEnd ==
    \A i \in InvSlots :
        Active(i) =>
            LET f == inv[i]
                n == Len(f.calls)
            IN  \A k \in 1..n :
                    (/\ f.calls[k].ok
                     /\ \/ f.calls[k].node \notin DOMAIN Edges
                        \/ Edges[f.calls[k].node] = END)
                    => /\ k = n
                       /\ \/ f.status \in {"running", "returned", "coerced", "reported"}
                          \/ f.error.type = "AssertionError"
                       /\ f.status = "running" => ~LoopContinues(f.current)
                       /\ Returned(i) => f.result = f.calls[k].ret

C3_Witness ==
    /\ inv[1].status = "returned"
    /\ Len(inv[1].calls) = 2
    /\ inv[1].calls[2].node \in DOMAIN Edges
    /\ Edges[inv[1].calls[2].node] = END
    /\ inv[1].calls[1].node \in DOMAIN Edges
    /\ "C" \in DOMAIN Nodes /\ "C" \notin DOMAIN Edges

(* C4: when execution reaches a step name with no registered function,     *)
(* invoke raises the unknown-step error for that name and returns nothing: *)
(* the steps before it ran once each along the edge chain, and no call     *)
(* follows.                                                                *)
C4_UnknownStepRaisesAtTransition ==
    \A i \in InvSlots :
        Active(i) =>
            LET f == inv[i]
            IN  /\ \A k \in 1..Len(f.calls) : f.calls[k].node \in DOMAIN Nodes
                /\ (/\ LastOk(i)
                    /\ LoopContinues(Reached(i))
                    /\ Reached(i) \notin DOMAIN Nodes)
                   => /\ f.status \in {"running", "raised"}
                      /\ f.status = "running" => f.current = Reached(i)
                      /\ f.status = "raised" =>
                            /\ f.error = UnknownStepError(Reached(i))
                            /\ f.result = NoObj
                            /\ f.final = NoFinal
                      /\ FollowsChain(i)
                      /\ NoRepeat(NodeSeq(f.calls))

C4_Witness ==
    /\ inv[1].status = "raised"
    /\ inv[1].error = UnknownStepError("C")
    /\ NodeSeq(inv[1].calls) = <<"A", "B">>

(* C5: while set_entry_point was never called, compile gives no graph (it  *)
(* raises), and no invocation exists, so no step function has run.         *)
C5_CompileWithoutEntryFails ==
    builder.entry_point = None =>
        /\ compiled.kind \in {"none", "ValueError"}
        /\ \A i \in InvSlots : inv[i] = IdleFrame /\ heap[i] = <<>>

C5_Witness ==
    /\ builder.entry_point = None
    /\ compiled = CompileError
    /\ DOMAIN Deref(builder.nodes) = StepNames
    /\ DOMAIN Deref(builder.edges) # {}

(* C6 (as claimed): once a graph is compiled, add_node, add_edge and       *)
(* set_entry_point on the builder leave its entry point, node table and    *)
(* edge map as they were.                                                  *)
GraphView ==
    [entry_point |-> compiled.entry_point, nodes |-> Nodes, edges |-> Edges]

C6_CompiledGraphImmutable ==
    [][(compiled.kind = "graph" /\ compiled' = compiled) => GraphView' = GraphView]_vars

-----------------------------------------------------------------------------
(* Two callers of one compiled graph, their invocations interleaved step   *)
(* by step, over a builder with two step names.                            *)

StepNames2 == {"A", "B"}

InvokeStep(i) == InvokeReturn(i) \/ InvokeUnknown(i) \/ InvokeCall(i)

Next2 ==
    \/ \E n \in StepNames2, fn \in FnKinds : AddNode(n, fn)
    \/ \E s \in StepNames2, t \in StepNames2 \cup {END} : AddEdge(s, t)
    \/ \E n \in StepNames2 : SetEntryPoint(n)
    \/ Compile
    \/ \E i \in InvSlots : Invoke(i)
    \/ \E i \in InvSlots : InvokeReturn(i)
    \/ \E i \in InvSlots : InvokeUnknown(i)
    \/ \E i \in InvSlots : InvokeCall(i)
    \/ \E i \in InvSlots : RunCoerce(i)
    \/ \E i \in InvSlots : RunAssert(i)
    \/ \E i \in InvSlots : RunEnd(i)

SpecTwoCallers == Init /\ [][Next2]_vars

\* The steps invoke runs from `current` on when nothing else runs, until a
\* terminal or unknown name, a raising step, or `fuel` calls.
RECURSIVE WalkAlone(_, _)
WalkAlone(current, fuel) ==
    IF fuel = 0 \/ ~LoopContinues(current) \/ current \notin DOMAIN Nodes
    THEN <<>>
    ELSE IF Nodes[current] = "raise"
         THEN <<current>>
         ELSE <<current>> \o WalkAlone(NextNode(Edges, current), fuel - 1)

\* The number of new objects the steps of s allocate.
RECURSIVE Allocations(_)
Allocations(s) ==
    IF s = <<>> THEN 0
    ELSE (IF Nodes[s[1]] = "mapping" THEN 1 ELSE 0) + Allocations(Tail(s))

(* C7: invocations of one compiled graph are independent. No step of       *)
(* invoke changes the graph, the builder or its dicts; every object a step *)
(* is given or returns was allocated by its own invocation; and an         *)
(* invocation that returned ran the steps, and returns the object with the *)
(* contents, that it produces when run alone.                              *)
C7_OwnObjectsOnly ==
    \A i \in InvSlots :
        Active(i) =>
            LET f == inv[i]
                alone == WalkAlone(compiled.entry_point, MaxSteps)
            IN  /\ f.initial = <<i, 1>>
                /\ f.state[1] = i
                /\ \A k \in 1..Len(f.calls) :
                        /\ f.calls[k].arg[1] = i
                        /\ f.calls[k].ok => f.calls[k].ret[1] = i
                /\ IsPrefix(NodeSeq(f.calls), alone)
                /\ Returned(i) =>
                        /\ NodeSeq(f.calls) = alone
                        /\ f.result = <<i, 1 + Allocations(alone)>>
                        /\ ObjAt(f.result).log = alone

C7_InvocationsIndependent ==
    /\ []C7_OwnObjectsOnly
    /\ [][(\E i \in InvSlots : InvokeStep(i)) =>
            /\ compiled' = compiled
            /\ builder' = builder
            /\ dictHeap' = dictHeap]_vars

C7_Witness ==
    /\ inv[1].status = "returned"
    /\ inv[2].status = "running"
    /\ Len(inv[1].calls) = 2
    /\ Len(inv[2].calls) = 1
    /\ inv[1].calls[1].fn = "same"
    /\ inv[1].calls[2].fn = "mapping"

(* C8: a step function that raises ends the invocation with that very      *)
(* error: the failing call is the last call (no retry, no later step), and *)
(* invoke returns no state.                                                *)
C8_StepFailurePropagates ==
    \A i \in InvSlots :
        Active(i) =>
            LET f == inv[i]
                n == Len(f.calls)
            IN  \A k \in 1..n :
                    ~f.calls[k].ok =>
                        /\ k = n
                        /\ f.status = "raised"
                        /\ f.error = StepError(f.calls[k].node)
                        /\ f.result = NoObj
                        /\ f.final = NoFinal

C8_Witness ==
    /\ inv[1].status = "raised"
    /\ Len(inv[1].calls) = 2
    /\ inv[1].error = StepError("B")
    /\ "B" \in DOMAIN Edges
    /\ Edges["B"] \in DOMAIN Nodes

(* C9 (as claimed): every step function is called with a structured state, *)
(* never with a raw mapping.                                               *)
C9_StepsGetStructuredState ==
    \A i \in InvSlots :
        Active(i) =>
            \A k \in 1..Len(inv[i].calls) :
                ObjAt(inv[i].calls[k].arg).type = "HealthcareGraphState"

(* C9 (amended): invoke hands a mapping a step returned to the next step   *)
(* as it is; run coerces only what invoke returns, so the final state of   *)
(* run is a structured state: the returned object itself when it is        *)
(* structured, the coercion of the mapping otherwise.                      *)
C9_OnlyFinalResultCoerced ==
    \A i \in InvSlots :
        Active(i) =>
            LET f == inv[i]
            IN  /\ \A k \in 2..Len(f.calls) :
                        /\ f.calls[k].arg = f.calls[k-1].ret
                        /\ ObjAt(f.calls[k].arg).type =
                                (IF f.calls[k-1].fn = "mapping" THEN "dict"
                                 ELSE ObjAt(f.calls[k-1].arg).type)
                /\ f.status = "coerced" =>
                        /\ f.final.type = "HealthcareGraphState"
                        /\ DOMAIN f.final.fields = FieldNames
                        /\ f.final.fields["patient_query"] = PyStrOf("q")
                        /\ ObjAt(f.result).type = "HealthcareGraphState" =>
                                f.final.fields = ObjAt(f.result).fields

C9_Witness ==
    /\ inv[1].status = "coerced"
    /\ ObjAt(inv[1].result).type = "dict"
    /\ Len(inv[1].calls) = 2
    /\ ObjAt(inv[1].calls[2].arg).type = "dict"
    /\ inv[1].final.fields["citizen_profile"] = PyDictOf("")

-----------------------------------------------------------------------------
(* Direct calls of _coerce_graph_state on the values a backend may return. *)

\* A key that the mapping does not hold.
Absent == PyVal("absent", "", "")

QueryValues == {Absent, PyNone, PyStrOf("q"), PyIntOf("5")}

ProfileValues ==
    {Absent, PyNone, PyDictOf("city=Lahore"), PyObjectOf("city=Lahore"),
     PyPairsOf("city=Lahore"), PyStrOf(""), PyStrOf("Lahore"), PyIntOf("5")}

ContextValues == {Absent, PyNone, PyContext("q", "p1"), PyStrOf("q")}

OutputValues(f) == {Absent, PyAgentOutput(f)}

\* One choice per key: a value, or Absent.
KeyChoices ==
    [patient_query : QueryValues,
     citizen_profile : ProfileValues,
     retrieved_context : ContextValues,
     triage : OutputValues("triage"),
     program_eligibility : OutputValues("program_eligibility"),
     facility_finder : OutputValues("facility_finder"),
     follow_up : OutputValues("follow_up"),
     health_analytics : OutputValues("health_analytics"),
     knowledge : OutputValues("knowledge")]

\* The dict that holds the chosen keys.
MappingOf(c) == [k \in {f \in FieldNames : c[f] # Absent} |-> c[k]]

CoerceArgs ==
    {StateVal("dict", MappingOf(c)) : c \in KeyChoices}
        \cup {InitialState, StateVal("list", EmptyDict)}

\* The caller has a value to coerce.
CoercePick(s) ==
    /\ cin = NoCoerceCall
    /\ cin' = s
    /\ UNCHANGED <<builder, dictHeap, compiled, inv, heap, cout, blog, orch, ragVars>>

\* self._coerce_graph_state(cin)
CoerceCall ==
    /\ cin # NoCoerceCall
    /\ cout = NoCoerceCall
    /\ cout' = CoerceGraphState(cin)
    /\ UNCHANGED <<builder, dictHeap, compiled, inv, heap, cin, blog, orch, ragVars>>

\* The caller is done with the outcome.
CoerceEnd ==
    /\ cout # NoCoerceCall
    /\ cin' = NoCoerceCall
    /\ cout' = NoCoerceCall
    /\ UNCHANGED <<builder, dictHeap, compiled, inv, heap, blog, orch, ragVars>>

NextCoerce ==
    \/ \E s \in CoerceArgs : CoercePick(s)
    \/ CoerceCall
    \/ CoerceEnd

SpecCoerce == Init /\ [][NextCoerce]_vars

CoerceDone == cin # NoCoerceCall /\ cout # NoCoerceCall

\* What the mapping holds under key f, None when it holds nothing.
Given(f) == DictGet(cin.fields, f, PyNone)

\* An empty string or an empty collection.
NeutralDefault(x) ==
    \/ x.t = "str" /\ x.v = ""
    \/ x.t = "dict" /\ x.v = ""
    \/ x.t = "list" /\ x.v = ""
    \/ x.t = "RetrievedContext" /\ x.p = ""

(* C10 (as claimed): coercing a mapping never fails, and every field the   *)
(* mapping left unset holds an empty string or an empty collection.        *)
C10_CoercionNeverFails ==
    (CoerceDone /\ cin.type = "dict") =>
        /\ cout.type = "HealthcareGraphState"
        /\ \A f \in FieldNames \ DOMAIN cin.fields : NeutralDefault(cout.fields[f])

\* The citizen_profile values that dict() cannot convert.
ProfileRejected(x) ==
    \/ x.t \in {"int", "AgentOutput", "RetrievedContext"}
    \/ x.t = "str" /\ x.v # ""

(* C10 (amended): coercing a mapping fails exactly when its                *)
(* citizen_profile is neither absent, None, a dict, an object with         *)
(* attributes nor something dict() converts. Otherwise the result is a     *)
(* structured state in which an unset patient_query is the empty string,   *)
(* an unset citizen_profile the empty dict, an unset retrieved_context a   *)
(* context with no passages, and an unset output field None; fields the    *)
(* mapping sets to a value of the right kind are kept.                     *)
C10_CoercionDefaults ==
    (CoerceDone /\ cin.type = "dict") =>
        IF ProfileRejected(Given("citizen_profile"))
        THEN IsRaised(cout)
        ELSE /\ cout.type = "HealthcareGraphState"
             /\ DOMAIN cout.fields = FieldNames
             /\ "patient_query" \notin DOMAIN cin.fields =>
                    cout.fields["patient_query"] = PyStrOf("")
             /\ Given("patient_query").t = "str" =>
                    cout.fields["patient_query"] = Given("patient_query")
             /\ "citizen_profile" \notin DOMAIN cin.fields =>
                    cout.fields["citizen_profile"] = PyDictOf("")
             /\ Given("citizen_profile").t = "dict" =>
                    cout.fields["citizen_profile"] = Given("citizen_profile")
             /\ "retrieved_context" \notin DOMAIN cin.fields =>
                    /\ cout.fields["retrieved_context"].t = "RetrievedContext"
                    /\ cout.fields["retrieved_context"].p = ""
             /\ Given("retrieved_context").t = "RetrievedContext" =>
                    cout.fields["retrieved_context"] = Given("retrieved_context")
             /\ \A f \in OutputFields : cout.fields[f] = Given(f)

C10_Witness ==
    /\ CoerceDone
    /\ cin = StateVal("dict", EmptyDict)
    /\ cout = NewGraphState(PyStrOf(""), PyDictOf(""), PyContext("", ""))

-----------------------------------------------------------------------------
(* A recorded construction: builder calls only, each one appended to blog. *)

InitBuilder ==
    /\ builder = NewBuilder
    /\ dictHeap = [r \in {NodesRef, EdgesRef} |-> EmptyDict]
    /\ compiled = NoGraph
    /\ inv = [i \in InvSlots |-> IdleFrame]
    /\ heap = [i \in InvSlots |-> <<>>]
    /\ cin = NoCoerceCall
    /\ cout = NoCoerceCall
    /\ blog = [on |-> TRUE, calls |-> <<>>]
    /\ orch = NoOrch
    /\ ck = IdleChunker
    /\ store = EmptyStore
    /\ srch = [s \in Searchers |-> IdleSearch]
    /\ pipe = NoPipeline

NextBuilder ==
    \/ \E n \in StepNames2, fn \in FnKinds : AddNode(n, fn)
    \/ \E s \in StepNames2, t \in StepNames2 \cup {END} : AddEdge(s, t)
    \/ \E n \in StepNames2 : SetEntryPoint(n)
    \/ Compile

SpecBuilder == InitBuilder /\ [][NextBuilder]_vars

\* The second argument of the last call `op` made with first argument
\* `key`, None when there was no such call.
LastCall(op, key) ==
    LET at == {i \in 1..Len(blog.calls) : blog.calls[i].op = op /\ blog.calls[i].a = key}
    IN  IF at = {} THEN None
        ELSE blog.calls[CHOOSE i \in at : \A j \in at : j <= i].b

\* Some call `op` was made with first argument `key` and then made again
\* with another second argument.
Overwritten(op, key) ==
    \E i, j \in 1..Len(blog.calls) :
        /\ i < j
        /\ blog.calls[i].op = op /\ blog.calls[j].op = op
        /\ blog.calls[i].a = key /\ blog.calls[j].a = key
        /\ blog.calls[i].b # blog.calls[j].b

\* C11: whatever builder calls were made, the compiled graph maps each step
\* name to the function of the last add_node call for that name, and each
\* source to the target of the last add_edge call for that source; names and
\* sources never given have no entry.  The edge map being a mapping, a step
\* has at most one outgoing edge.
C11_LastCallWins ==
    compiled.kind = "graph" =>
        \A n \in StepNames2 :
            /\ DictGet(Nodes, n, None) = LastCall("add_node", n)
            /\ DictGet(Edges, n, None) = LastCall("add_edge", n)

\* A compiled graph one of whose step names was registered twice, with
\* different functions.
C11_Witness ==
    /\ compiled.kind = "graph"
    /\ \E n \in StepNames2 : Overwritten("add_node", n)

-----------------------------------------------------------------------------
(* The orchestrator: the graph _build_graph compiles, and run() on it.     *)

\* The edges _build_graph adds.
OrchEdges ==
    [n \in DOMAIN OrchNodes |->
        CASE n = "triage" -> "eligibility"
          [] n = "eligibility" -> "facility"
          [] n = "facility" -> "follow_up"
          [] n = "follow_up" -> "analytics"
          [] n = "analytics" -> "knowledge"
          [] OTHER -> END]

\* _default_profile(): its city is Lahore.
DefaultProfile == PyDictOf("city=Lahore")

\* The profile with the city _extract_city_from_query finds in the query,
\* None when the query names no city.
CityHint(query) == IF query.v = "i live in Multan" THEN "city=Multan" ELSE None

\* The profile run() puts in the initial state: a copy of the caller's, or
\* the default when the caller gave None or an empty dict, then the city hint.
RunProfile(query, profile) ==
    LET given == IF PyTruthy(profile) THEN profile ELSE DefaultProfile
    IN  IF CityGiven(given) \/ CityHint(query) = None
        THEN given
        ELSE PyDictOf(CityHint(query))

\* The queries and profiles callers pass, and the step whose generation
\* call fails during the run ("" when none does).
OrchQueries == {PyStrOf("q"), PyStrOf("i live in Multan")}
OrchProfiles ==
    {PyNone, PyDictOf(""), PyDictOf("city=Lahore"), PyDictOf("age=30"), PyDictOf("city= ")}
OrchFailures == {""} \cup OrchFns

\* run(patient_query, citizen_profile) up to self.graph.invoke(initial_state).
OrchRun(i, query, profile, fail) ==
    /\ compiled.kind = "graph"
    /\ inv[i].status = "idle"
    /\ LET initial == NewGraphState(query, RunProfile(query, profile), PyContext(query.v, ""))
       IN  heap' = [heap EXCEPT ![i] = <<StateObj(initial.type, initial.fields, <<>>)>>]
    /\ inv' = [inv EXCEPT ![i] = StartFrame(compiled, <<i, 1>>)]
    /\ orch' = [fail |-> fail, ext |-> <<>>]
    /\ UNCHANGED <<builder, dictHeap, compiled, cin, cout, blog, ragVars>>

\* After HealthcareMultiAgentSystem.__init__: self.graph = self._build_graph().
InitOrch ==
    /\ builder = [NewBuilder EXCEPT !.entry_point = "triage"]
    /\ dictHeap = [r \in {NodesRef, EdgesRef} |-> IF r = NodesRef THEN OrchNodes ELSE OrchEdges]
    /\ compiled = CompileResult([NewBuilder EXCEPT !.entry_point = "triage"])
    /\ inv = [i \in InvSlots |-> IdleFrame]
    /\ heap = [i \in InvSlots |-> <<>>]
    /\ cin = NoCoerceCall
    /\ cout = NoCoerceCall
    /\ blog = NoLog
    /\ orch = NoOrch
    /\ ck = IdleChunker
    /\ store = EmptyStore
    /\ srch = [s \in Searchers |-> IdleSearch]
    /\ pipe = NoPipeline

NextOrch ==
    \/ \E q \in OrchQueries, p \in OrchProfiles, fail \in OrchFailures : OrchRun(1, q, p, fail)
    \/ InvokeReturn(1)
    \/ InvokeCall(1)
    \/ RunCoerce(1)
    \/ RunAssert(1)
    \/ RunEnd(1)

SpecOrch == InitOrch /\ [][NextOrch]_vars

\* The six steps in the order of the edge chain.
OrchOrder == <<"triage", "eligibility", "facility", "follow_up", "analytics", "knowledge">>

\* C12: a run of the orchestrator calls triage, eligibility, facility,
\* follow_up, analytics and knowledge once each, in that order, and then
\* stands at the terminal sentinel; no name outside the node table is ever
\* reached; when no step raised, the state invoke returns has all six
\* output fields set, the assertions of run hold and no AssertionError is
\* ever raised, whatever the query and the profile, a profile without a
\* city included.
C12_SixStepsThenAssertsHold ==
    LET f == inv[1]
        seq == NodeSeq(f.calls)
    IN  /\ IsPrefix(seq, OrchOrder)
        /\ f.status = "running" /\ LoopContinues(f.current) => f.current \in DOMAIN Nodes
        /\ Returned(1) =>
            /\ seq = OrchOrder
            /\ f.current = END
            /\ \A k \in 1..Len(f.calls) : f.calls[k].ok
            /\ \A o \in OutputFields : ObjAt(f.result).fields[o].t = "AgentOutput"
        /\ f.status \in {"coerced", "reported"} => AssertsHold(f.final)
        /\ f.status = "raised" => f.error.type = "StepError" /\ ~LastOk(1)

\* A run whose profile names no city has passed the assertions, with the
\* placeholder of the facility step in the final state.
C12_Witness ==
    /\ inv[1].status = "reported"
    /\ ~CityGiven(inv[1].final.fields["citizen_profile"])
    /\ inv[1].final.fields["facility_finder"].p = "facility_options=[],needs_city=True"
    /\ NodeSeq(inv[1].calls) = OrchOrder

-----------------------------------------------------------------------------
(* chunk_text (rag/document_store.py).  A text is a sequence of            *)
(* characters, a chunk the characters of its words joined by single        *)
(* spaces, with the word window [start, end) it was cut from.              *)

\* Longest text, and largest chunk_size and overlap, a caller passes.
MaxTextLen == 7
MaxChunkSize == 3
MaxOverlap == 3

\* The texts: a letter and whitespace are all chunk_text tells apart.
Texts == UNION {[1..n -> {"a", " "}] : n \in 0..MaxTextLen}

\* text.strip()
Strip(text) ==
    LET solid == {i \in 1..Len(text) : text[i] # " "}
    IN  IF solid = {} THEN <<>>
        ELSE SubSeq(text, CHOOSE i \in solid : \A j \in solid : i <= j,
                          CHOOSE i \in solid : \A j \in solid : j <= i)

\* text.split(): the maximal runs of non-whitespace characters, in order.
Split(text) ==
    LET starts == {i \in 1..Len(text) : text[i] # " " /\ (i = 1 \/ text[i-1] = " ")}
        nth(k) == CHOOSE i \in starts : Cardinality({j \in starts : j <= i}) = k
        stop(i) == CHOOSE j \in i..Len(text) :
                        /\ \A m \in i..j : text[m] # " "
                        /\ j = Len(text) \/ text[j+1] = " "
    IN  [k \in 1..Cardinality(starts) |-> SubSeq(text, nth(k), stop(nth(k)))]

\* " ".join(words)
RECURSIVE Join(_)
Join(words) ==
    IF words = <<>> THEN <<>>
    ELSE IF Len(words) = 1 THEN words[1]
    ELSE words[1] \o <<" ">> \o Join(Tail(words))

\* A window that is one word short.
WindowEndShort(start, chunk_size, len) ==
    IF len <= start + chunk_size - 1 THEN len ELSE start + chunk_size - 1

\* end = min(len(words), start + chunk_size)
WindowEnd(start, chunk_size, len) ==
    IF len <= start + chunk_size THEN len ELSE start + chunk_size

\* A next start that skips the word after the window.
NextStartSkip(end, overlap, len) ==
    IF end >= len THEN end ELSE IF end - overlap + 1 > 0 THEN end - overlap + 1 ELSE 0

\* start = end if end >= len(words) else max(0, end - overlap)
NextStart(end, overlap, len) ==
    IF end >= len THEN end ELSE IF end - overlap > 0 THEN end - overlap ELSE 0

\* chunk_text(text, chunk_size, overlap) up to the loop: no chunks for a
\* text that strips to nothing.
ChunkText(text, chunk_size, overlap) ==
    /\ ck.pc = "idle"
    /\ ck' = [pc |-> IF Strip(text) = <<>> THEN "returned" ELSE "loop",
              text |-> text, chunk_size |-> chunk_size, overlap |-> overlap,
              words |-> Split(Strip(text)), start |-> 0, chunks |-> <<>>]
    /\ UNCHANGED <<graphVars, store, srch, pipe>>

\* One iteration of `while start < len(words)`.  The model follows the loop
\* for one iteration more than there are words: start takes values below
\* len(words) and alone decides the next iteration, so by then a value of
\* start has come back and the loop never ends.
ChunkLoop ==
    /\ ck.pc = "loop"
    /\ ck.start < Len(ck.words)
    /\ Len(ck.chunks) <= Len(ck.words)
    /\ LET end == WindowEnd(ck.start, ck.chunk_size, Len(ck.words))
           chunk == [text |-> Join(SubSeq(ck.words, ck.start + 1, end)),
                     start |-> ck.start, end |-> end]
       IN  ck' = [ck EXCEPT !.chunks = Append(@, chunk),
                            !.start = NextStart(end, ck.overlap, Len(ck.words))]
    /\ UNCHANGED <<graphVars, store, srch, pipe>>

\* The loop condition is false: `return chunks`.
ChunkReturn ==
    /\ ck.pc = "loop"
    /\ ck.start >= Len(ck.words)
    /\ ck' = [ck EXCEPT !.pc = "returned"]
    /\ UNCHANGED <<graphVars, store, srch, pipe>>

\* The caller is done with the chunks.
ChunkEnd ==
    /\ ck.pc = "returned"
    /\ ck' = IdleChunker
    /\ UNCHANGED <<graphVars, store, srch, pipe>>

NextChunk ==
    \/ \E t \in Texts, c \in 0..MaxChunkSize, o \in 0..MaxOverlap : ChunkText(t, c, o)
    \/ ChunkLoop
    \/ ChunkReturn
    \/ ChunkEnd

SpecChunk == Init /\ [][NextChunk]_vars

\* The words of a chunk, recovered from its text.
ChunkWords(c) == Split(c.text)

\* The call was given a text with at least one word and a step of zero or less.
NonPositiveStep == ck.pc # "idle" /\ ck.words # <<>> /\ ck.chunk_size - ck.overlap <= 0

\* C13: chunk_text terminates for every text and every non-negative
\* chunk_size and overlap, overlap >= chunk_size on a text of more than
\* chunk_size words included.  The loop's next iteration depends on start
\* alone and start < len(words) while it runs, so it terminates exactly when
\* it makes at most len(words) iterations, one chunk each.
C13_ChunkTextTerminates ==
    ck.pc = "loop" => Len(ck.chunks) <= Len(ck.words)

\* C14: a call with a text of at least one word and chunk_size - overlap <= 0
\* ends in a fatal error: it neither returns a chunk list nor loops for ever.
C14_NonPositiveStepIsFatal ==
    NonPositiveStep =>
        /\ ck.pc # "returned"
        /\ Len(ck.chunks) <= Len(ck.words)

\* C15: when chunk_size = overlap + step with step > 0, the chunks returned
\* cover every word of the whitespace-tokenized text at least once, and no
\* chunk has more than chunk_size words.
C15_ChunksCoverEveryWord ==
    (ck.pc = "returned" /\ ck.chunk_size - ck.overlap > 0) =>
        /\ \A k \in 1..Len(ck.words) :
                \E j \in 1..Len(ck.chunks) :
                    /\ ck.chunks[j].start < k /\ k <= ck.chunks[j].end
                    /\ ChunkWords(ck.chunks[j])[k - ck.chunks[j].start] = ck.words[k]
        /\ \A j \in 1..Len(ck.chunks) : Len(ChunkWords(ck.chunks[j])) <= ck.chunk_size

\* A call with overlapping windows has returned three chunks or more.
C15_Witness ==
    /\ ck.pc = "returned"
    /\ ck.chunk_size - ck.overlap > 0
    /\ ck.overlap > 0
    /\ Len(ck.chunks) >= 3

\* C16: with 0 <= overlap < chunk_size, every window but the last has exactly
\* chunk_size words and ends before the last word, each window starts
\* chunk_size - overlap words after the one before it, the first starts at
\* the first word, and the last ends exactly at the last word with at most
\* chunk_size words; a text that is empty or all whitespace gives no chunk.
C16_WindowsAdvanceByStep ==
    (ck.pc = "returned" /\ ck.overlap < ck.chunk_size) =>
        LET n == Len(ck.chunks)
            len == Len(ck.words)
            size(j) == Len(ChunkWords(ck.chunks[j]))
        IN  /\ Strip(ck.text) = <<>> => n = 0
            /\ Strip(ck.text) # <<>> =>
                /\ n >= 1
                /\ ck.chunks[1].start = 0
                /\ ck.chunks[n].end = len
                /\ size(n) >= 1 /\ size(n) <= ck.chunk_size
                /\ \A j \in 1..n :
                        /\ size(j) = ck.chunks[j].end - ck.chunks[j].start
                        /\ ChunkWords(ck.chunks[j])
                             = SubSeq(ck.words, ck.chunks[j].start + 1, ck.chunks[j].end)
                /\ \A j \in 1..(n-1) :
                        /\ size(j) = ck.chunk_size
                        /\ ck.chunks[j].end < len
                        /\ ck.chunks[j+1].start
                             = ck.chunks[j].start + ck.chunk_size - ck.overlap

\* A call has returned two windows or more, the last shorter than chunk_size.
C16_Witness ==
    /\ ck.pc = "returned"
    /\ ck.overlap < ck.chunk_size
    /\ ck.overlap > 0
    /\ Len(ck.chunks) >= 2
    /\ Len(ChunkWords(ck.chunks[Len(ck.chunks)])) < ck.chunk_size

-----------------------------------------------------------------------------
(* SimpleVectorStore (rag/document_store.py).  A vector keeps the token    *)
(* counts and the square of their norm: the weight of a token is           *)
(* counts[t] / sqrt(n2), and scores are compared exactly, without roots.   *)

\* Most chunks callers offer to a store, and largest top_k of a search.
MaxDocs == 3
MaxK == 3

\* text.lower()
Lower(text) ==
    [i \in 1..Len(text) |->
        CASE text[i] = "A" -> "a" [] text[i] = "B" -> "b" [] OTHER -> text[i]]

\* A pattern whose first character may also be a digit.
RECURSIVE FindTokensDigitFirst(_, _)
FindTokensDigitFirst(text, i) ==
    LET inner(c) == c \in {"a", "b", "A", "B", "1", "2", "3", "_", "-"}
        letter(c) == c \in {"a", "b", "A", "B", "1", "2", "3"}
        stop == CHOOSE j \in (i+1)..Len(text) :
                    /\ \A m \in (i+1)..j : inner(text[m])
                    /\ j = Len(text) \/ ~inner(text[j+1])
    IN  IF i > Len(text) THEN <<>>
        ELSE IF letter(text[i]) /\ i < Len(text) /\ inner(text[i+1])
             THEN <<SubSeq(text, i, stop)>> \o FindTokensDigitFirst(text, stop + 1)
             ELSE FindTokensDigitFirst(text, i + 1)

\* TOKEN_PATTERN.findall(text) for [a-zA-Z][a-zA-Z0-9_-]+ : from the left,
\* a letter followed by at least one more token character starts a token,
\* which runs as far as token characters go.
RECURSIVE FindTokens(_, _)
FindTokens(text, i) ==
    LET letter(c) == c \in {"a", "b", "A", "B"}
        inner(c) == letter(c) \/ c \in {"1", "2", "3", "_", "-"}
        stop == CHOOSE j \in (i+1)..Len(text) :
                    /\ \A m \in (i+1)..j : inner(text[m])
                    /\ j = Len(text) \/ ~inner(text[j+1])
    IN  IF i > Len(text) THEN <<>>
        ELSE IF letter(text[i]) /\ i < Len(text) /\ inner(text[i+1])
             THEN <<SubSeq(text, i, stop)>> \o FindTokens(text, stop + 1)
             ELSE FindTokens(text, i + 1)

\* _tokenize(text)
Tokenize(text) == FindTokens(Lower(text), 1)

\* Counter(tokens)
Counter(tokens) ==
    [t \in {tokens[i] : i \in 1..Len(tokens)} |->
        Cardinality({i \in 1..Len(tokens) : tokens[i] = t})]

\* sum(f[t] * g[t] for t in keys)
RECURSIVE SumProducts(_, _, _)
SumProducts(f, g, keys) ==
    IF keys = {} THEN 0
    ELSE LET t == CHOOSE x \in keys : TRUE
         IN  f[t] * g[t] + SumProducts(f, g, keys \ {t})

\* A normalisation by the sum of the counts instead of the Euclidean norm.
NormalizeByTotal(counts) ==
    LET total == SumProducts(counts, [t \in DOMAIN counts |-> 1], DOMAIN counts)
    IN  [counts |-> counts, n2 |-> IF total = 0 THEN 1 ELSE total * total]

\* _normalize(counts): norm = sqrt(sum of squares) or 1.0
Normalize(counts) ==
    LET sq == SumProducts(counts, counts, DOMAIN counts)
    IN  [counts |-> counts, n2 |-> IF sq = 0 THEN 1 ELSE sq]

\* _cosine(first, second): the sum over the tokens of `first` of the
\* products of the weights, second.get(token, 0.0) for a token it lacks;
\* the score is dot / sqrt(n2).
Cosine(first, second) ==
    [dot |-> SumProducts(first.counts, second.counts,
                         DOMAIN first.counts \cap DOMAIN second.counts),
     n2 |-> first.n2 * second.n2]

\* score a > score b, and score a > 0
ScoreGreater(a, b) == a.dot * a.dot * b.n2 > b.dot * b.dot * a.n2
ScorePositive(a) == a.dot > 0

\* A list left as it was scored.
SortNone(scored) == scored

\* A descending sort that puts later entries before earlier ones of equal score.
SortDescTiesReversed(scored) ==
    LET rank(i) == 1 + Cardinality({j \in 1..Len(scored) :
                        \/ ScoreGreater(scored[j].score, scored[i].score)
                        \/ /\ ~ScoreGreater(scored[i].score, scored[j].score)
                           /\ j > i})
    IN  [p \in 1..Len(scored) |-> scored[CHOOSE i \in 1..Len(scored) : rank(i) = p]]

\* scored.sort(key=score, reverse=True): descending and stable, an entry
\* goes after those of greater score and after the earlier ones of equal score.
SortDesc(scored) ==
    LET rank(i) == 1 + Cardinality({j \in 1..Len(scored) :
                        \/ ScoreGreater(scored[j].score, scored[i].score)
                        \/ /\ ~ScoreGreater(scored[i].score, scored[j].score)
                           /\ j < i})
    IN  [p \in 1..Len(scored) |-> scored[CHOOSE i \in 1..Len(scored) : rank(i) = p]]

\* [chunk for score, chunk in scored[:top_k] if score > 0]
TopK(sorted, top_k) ==
    LET cut == SubSeq(sorted, 1, IF top_k < Len(sorted) THEN top_k ELSE Len(sorted))
        kept == SelectSeq(cut, LAMBDA e : ScorePositive(e.score))
    IN  [p \in 1..Len(kept) |-> kept[p].chunk]

\* An add_documents that stores every chunk, tokens or not.
RECURSIVE AddAllKeepsTokenless(_, _)
AddAllKeepsTokenless(st, chunks) ==
    IF chunks = <<>> THEN st
    ELSE LET doc == [chunk |-> [identifier |-> st.offered + 1, text |-> Head(chunks)],
                     vector |-> Normalize(Counter(Tokenize(Head(chunks))))]
         IN  AddAllKeepsTokenless([offered |-> st.offered + 1,
                                   documents |-> Append(st.documents, doc)],
                                  Tail(chunks))

\* add_documents(chunks): a chunk without tokens is skipped, the others are
\* appended with their vector; a chunk is named by its rank among all
\* chunks offered.
RECURSIVE AddAll(_, _)
AddAll(st, chunks) ==
    IF chunks = <<>> THEN st
    ELSE LET tokens == Tokenize(Head(chunks))
             doc == [chunk |-> [identifier |-> st.offered + 1, text |-> Head(chunks)],
                     vector |-> Normalize(Counter(tokens))]
         IN  AddAll([offered |-> st.offered + 1,
                     documents |-> IF tokens = <<>> THEN st.documents
                                   ELSE Append(st.documents, doc)],
                    Tail(chunks))

\* A search that sorts the index itself.
StoreAfterSearchSorted(st, scored) ==
    LET at(c) == CHOOSE i \in 1..Len(st.documents) : st.documents[i].chunk = c
        sorted == SortDesc(scored)
    IN  IF \A p \in 1..Len(scored) : \E i \in 1..Len(st.documents) :
                st.documents[i].chunk = scored[p].chunk
        THEN [st EXCEPT !.documents = [p \in 1..Len(sorted) |-> st.documents[at(sorted[p].chunk)]]]
        ELSE st

\* A search that takes its best match out of the index.
StoreAfterSearchPop(st, scored) ==
    LET sorted == SortDesc(scored)
    IN  IF sorted = <<>> THEN st
        ELSE [st EXCEPT !.documents =
                SelectSeq(@, LAMBDA d : d.chunk # sorted[1].chunk)]

\* The store after similarity_search: it assigns nothing to self._documents
\* and builds its list `scored` anew.
StoreAfterSearch(st, scored) == st

\* The chunk texts and queries of the model: "ab", "Ab", "ab ba",
\* "ab ab ba", "ba" and the tokenless "a 1"; "a ab", "ba ab", "ba", "a 1".
DocTexts ==
    LET ab == <<"a", "b">>
        ba == <<"b", "a">>
    IN  {Join(ws) : ws \in {<<ab>>, <<<<"A", "b">>>>, <<ab, ba>>, <<ab, ab, ba>>,
                            <<ba>>, <<<<"a">>, <<"1">>>>}}

QueryTexts ==
    LET ab == <<"a", "b">>
        ba == <<"b", "a">>
    IN  {Join(ws) : ws \in {<<<<"a">>, ab>>, <<ba, ab>>, <<ba>>, <<<<"a">>, <<"1">>>>}}
        \cup {<<>>, <<"1", "2", "3", " ", "!", "!", "!", " ", "-", "-", "-">>}

\* The batches a caller passes to add_documents: one or two chunks.
Batches == {<<t>> : t \in DocTexts} \cup {<<t, u>> : t \in DocTexts, u \in DocTexts}

\* add_documents(chunks), while no search is under way.
AddDocuments(chunks) ==
    /\ \A s \in Searchers : srch[s].pc = "idle"
    /\ store.offered + Len(chunks) <= MaxDocs
    /\ store' = AddAll(store, chunks)
    /\ UNCHANGED <<graphVars, ck, srch, pipe>>

\* similarity_search(query, top_k) up to the scoring: a query without
\* tokens returns [] at once.  `calls` counts this call and `first` keeps
\* the previous result when the caller repeats a search.
StartSearch(query, top_k, calls, first) ==
    [pc |-> IF Tokenize(query) = <<>> THEN "done" ELSE "scoring",
     query |-> query, top_k |-> top_k, scored |-> <<>>, result |-> <<>>,
     calls |-> calls, first |-> first]

SearchBegin(s, query, top_k) ==
    /\ srch[s].pc = "idle"
    /\ srch' = [srch EXCEPT ![s] = StartSearch(query, top_k, 1, <<>>)]
    /\ UNCHANGED <<graphVars, ck, store, pipe>>

\* The list comprehension reaches the next document of self._documents.
SearchScore(s) ==
    /\ srch[s].pc = "scoring"
    /\ Len(srch[s].scored) < Len(store.documents)
    /\ LET doc == store.documents[Len(srch[s].scored) + 1]
           query_vector == Normalize(Counter(Tokenize(srch[s].query)))
       IN  srch' = [srch EXCEPT ![s].scored =
                        Append(@, [score |-> Cosine(query_vector, doc.vector),
                                   chunk |-> doc.chunk])]
    /\ UNCHANGED <<graphVars, ck, store, pipe>>

\* All documents are scored: sort, cut at top_k, keep the positive scores.
SearchFinish(s) ==
    /\ srch[s].pc = "scoring"
    /\ Len(srch[s].scored) >= Len(store.documents)
    /\ srch' = [srch EXCEPT ![s].pc = "done",
                            ![s].result = TopK(SortDesc(srch[s].scored), srch[s].top_k)]
    /\ store' = StoreAfterSearch(store, srch[s].scored)
    /\ UNCHANGED <<graphVars, ck, pipe>>

\* The caller makes the same call again, right after the first.
SearchAgain(s) ==
    /\ srch[s].pc = "done"
    /\ srch[s].calls = 1
    /\ srch' = [srch EXCEPT ![s] =
                    StartSearch(srch[s].query, srch[s].top_k, 2, srch[s].result)]
    /\ UNCHANGED <<graphVars, ck, store, pipe>>

\* The caller is done with the result.
SearchEnd(s) ==
    /\ srch[s].pc = "done"
    /\ srch' = [srch EXCEPT ![s] = IdleSearch]
    /\ UNCHANGED <<graphVars, ck, store, pipe>>

\* One caller: additions and searches in sequence.
NextSearch ==
    \/ \E b \in Batches : AddDocuments(b)
    \/ \E q \in QueryTexts, k \in 0..MaxK : SearchBegin(1, q, k)
    \/ SearchScore(1)
    \/ SearchFinish(1)
    \/ SearchAgain(1)
    \/ SearchEnd(1)

SpecSearch == Init /\ [][NextSearch]_vars

\* The stored chunks and their scores against the query of searcher s.
Stored == {store.documents[i].chunk : i \in 1..Len(store.documents)}

ScoreOf(s, c) ==
    LET doc == store.documents[CHOOSE i \in 1..Len(store.documents) :
                                    store.documents[i].chunk = c]
    IN  Cosine(Normalize(Counter(Tokenize(srch[s].query))), doc.vector)

Positives(s) == {c \in Stored : ScorePositive(ScoreOf(s, c))}

\* C17: a finished search returns min(top_k, number of stored chunks with a
\* score above zero) distinct stored chunks, each with a score above zero,
\* in order of descending score, and no stored chunk left out scores higher
\* than one returned; so a chunk sharing a token with the query is placed
\* before any chunk sharing none, which is never returned.
C17_TopKPositiveDescending ==
    \A s \in Searchers :
        srch[s].pc = "done" =>
            LET r == srch[s].result
                n == Cardinality(Positives(s))
            IN  /\ Len(r) = IF srch[s].top_k < n THEN srch[s].top_k ELSE n
                /\ \A p \in 1..Len(r) : r[p] \in Positives(s)
                /\ \A p, q \in 1..Len(r) : p # q => r[p] # r[q]
                /\ \A p, q \in 1..Len(r) :
                        p < q => ~ScoreGreater(ScoreOf(s, r[q]), ScoreOf(s, r[p]))
                /\ \A c \in Stored :
                        (\A p \in 1..Len(r) : r[p] # c) =>
                            \A p \in 1..Len(r) : ~ScoreGreater(ScoreOf(s, c), ScoreOf(s, r[p]))

\* A search with top_k = 2 over three stored chunks of three different
\* positive scores, stored in ascending order of score, has returned the
\* best two; and one over a chunk that shares no token has left it out.
C17_Witness ==
    /\ srch[1].pc = "done"
    /\ srch[1].top_k = 2
    /\ Len(srch[1].result) = 2
    /\ Len(store.documents) = 3
    /\ Cardinality(Positives(1)) = 3
    /\ ScoreGreater(ScoreOf(1, store.documents[2].chunk), ScoreOf(1, store.documents[1].chunk))
    /\ ScoreGreater(ScoreOf(1, store.documents[3].chunk), ScoreOf(1, store.documents[2].chunk))

\* Two scores are equal.
ScoreEqual(a, b) == ~ScoreGreater(a, b) /\ ~ScoreGreater(b, a)

\* C18: chunks of equal score come back in the order they were added: of two
\* returned chunks with equal score the one added earlier stands first, and
\* a chunk left out was added after every returned chunk of the same score.
C18_TiesInInsertionOrder ==
    \A s \in Searchers :
        srch[s].pc = "done" =>
            LET r == srch[s].result
            IN  /\ \A p, q \in 1..Len(r) :
                        (p < q /\ ScoreEqual(ScoreOf(s, r[p]), ScoreOf(s, r[q])))
                            => r[p].identifier < r[q].identifier
                /\ \A c \in Stored, p \in 1..Len(r) :
                        (/\ \A q \in 1..Len(r) : r[q] # c
                         /\ ScoreEqual(ScoreOf(s, c), ScoreOf(s, r[p])))
                            => r[p].identifier < c.identifier

\* A search has returned two chunks with identical token distributions.
C18_Witness ==
    /\ srch[1].pc = "done"
    /\ \E p, q \in 1..Len(srch[1].result) :
            /\ p < q
            /\ Counter(Tokenize(srch[1].result[p].text))
                 = Counter(Tokenize(srch[1].result[q].text))
            /\ srch[1].result[p].text # srch[1].result[q].text

\* C19: a search repeated right after itself, with no add_documents in
\* between, returns the same chunks in the same order.
C19_RepeatedSearchSameResult ==
    (srch[1].pc = "done" /\ srch[1].calls = 2) => srch[1].result = srch[1].first

\* A repeated search has returned two chunks or more.
C19_Witness ==
    /\ srch[1].pc = "done"
    /\ srch[1].calls = 2
    /\ Len(srch[1].result) >= 2

\* similarity_search(query, top_k) run alone on the documents docs.
SimilaritySearch(docs, query, top_k) ==
    LET query_vector == Normalize(Counter(Tokenize(query)))
        scored == [i \in 1..Len(docs) |->
                    [score |-> Cosine(query_vector, docs[i].vector), chunk |-> docs[i].chunk]]
    IN  IF Tokenize(query) = <<>> THEN <<>> ELSE TopK(SortDesc(scored), top_k)

\* Two callers whose searches interleave document by document; additions
\* are made while no search is under way.
NextSearch2 ==
    \/ \E t \in {d \in DocTexts : Len(Tokenize(d)) \in {1, 2}} : AddDocuments(<<t>>)
    \/ \E s \in Searchers, k \in {1, 2} :
          \E q \in {x \in QueryTexts : Len(Tokenize(x)) = IF s = 1 THEN 1 ELSE 2} :
            SearchBegin(s, q, k)
    \/ \E s \in Searchers : SearchScore(s)
    \/ \E s \in Searchers : SearchFinish(s)
    \/ \E s \in Searchers : SearchEnd(s)

SpecSearch2 == Init /\ [][NextSearch2]_vars

\* C20: no step of a search changes the index (its entries, their order,
\* chunks and vectors), and every search that interleaves with others on an
\* index that receives no addition returns what the same call returns when
\* it runs alone.
C20_SearchesReadOnly ==
    /\ [][srch' # srch => store' = store]_vars
    /\ [](\A s \in Searchers :
            srch[s].pc = "done" =>
                srch[s].result = SimilaritySearch(store.documents, srch[s].query, srch[s].top_k))

\* One search has finished with a result while the other is part-way
\* through the documents.
C20_Witness ==
    /\ srch[1].pc = "done"
    /\ srch[1].result # <<>>
    /\ srch[2].pc = "scoring"
    /\ Len(srch[2].scored) > 0
    /\ Len(srch[2].scored) < Len(store.documents)

-----------------------------------------------------------------------------
(* The index as a collection.                                              *)

\* The texts of the entries that a step appended to the index.
AppendedTexts ==
    [k \in 1..(Len(store.documents') - Len(store.documents)) |->
        store.documents'[Len(store.documents) + k].chunk.text]

\* C21: the index holds the added chunks that have at least one token, in
\* the order they were added, each with the vector of its text: an
\* add_documents call appends exactly the chunks of its batch that tokenize
\* to something, in batch order, and drops the others without an error; no
\* step removes, reorders or changes an entry, and a search changes nothing.
C21_IndexAppendOnly ==
    /\ [](\A i \in 1..Len(store.documents) :
            LET d == store.documents[i]
            IN  /\ Tokenize(d.chunk.text) # <<>>
                /\ d.vector = Normalize(Counter(Tokenize(d.chunk.text)))
                /\ i > 1 => store.documents[i-1].chunk.identifier < d.chunk.identifier)
    /\ [][/\ IsPrefix(store.documents, store.documents')
          /\ srch' # srch => store' = store
          /\ \A b \in Batches :
                AddDocuments(b) =>
                    AppendedTexts = SelectSeq(b, LAMBDA t : Tokenize(t) # <<>>)]_vars

\* Three chunks were offered, one without tokens was dropped, and a search
\* on the two stored has returned.
C21_Witness ==
    /\ store.offered = 3
    /\ Len(store.documents) = 2
    /\ srch[1].pc = "done"
    /\ srch[1].result # <<>>

-----------------------------------------------------------------------------
(* Texts without tokens.                                                   *)

\* The text has no letter at all, as "" and "123 !!! ---".
NoLetter(text) == \A i \in 1..Len(text) : text[i] \notin {"a", "b", "A", "B"}

Digits123 == <<"1", "2", "3", " ", "!", "!", "!", " ", "-", "-", "-">>

\* C22: a query text without a letter has no token and the empty vector;
\* a search whose query has no token has returned, with the empty list,
\* whatever the index holds; and a search on an index that holds nothing
\* returns the empty list for every query.
C22_EmptyVectorEmptyResult ==
    LET q == srch[1].query
    IN  /\ srch[1].pc # "idle" /\ NoLetter(q) =>
              /\ Tokenize(q) = <<>>
              /\ DOMAIN Normalize(Counter(Tokenize(q))).counts = {}
        /\ srch[1].pc # "idle" /\ Tokenize(q) = <<>> =>
              srch[1].pc = "done" /\ srch[1].result = <<>>
        /\ srch[1].pc = "done" /\ store.documents = <<>> => srch[1].result = <<>>

\* The query "123 !!! ---" on an index of two documents gave nothing.
C22_Witness ==
    /\ srch[1].pc = "done"
    /\ srch[1].query = Digits123
    /\ Len(store.documents) = 2
    /\ srch[1].result = <<>>

-----------------------------------------------------------------------------
(* HealthcareRAGPipeline: chunk_text and SimpleVectorStore put together.   *)
(* `pipe` is the pipeline object and the outcome of the last call on it,   *)
(* `ck` the chunk_text call that ingest_corpus is in, `store` the          *)
(* pipeline's vector_store.                                                *)

\* The ingest_corpus calls a caller makes after the construction.
MaxIngests == 1

\* The paths given as knowledge_base_path or in `files`: the empty path, a
\* path where nothing is, a text file under two spellings, an empty file.
Paths == {"", "missing.md", "kb.md", "./kb.md", "empty.md"}

\* str(Path(p)): the empty path is the current directory, "." ; a leading
\* "./" is dropped.
PathStr(path) ==
    CASE path = "" -> "."
      [] path = "./kb.md" -> "kb.md"
      [] OTHER -> path

\* What is at the path: Path.exists() is true of a file and of a directory,
\* and the current directory always exists.
FileKind(path) ==
    CASE path = "." -> "dir"
      [] path = "missing.md" -> "absent"
      [] OTHER -> "file"

\* load_text_file(path): "" when nothing is there, else the file's text.
LoadTextFile(path) ==
    IF FileKind(path) = "absent" \/ path = "empty.md" THEN <<>>
    ELSE Join(<<<<"a", "b">>, <<"b", "a">>, <<"a", "b">>>>)

\* A retrieve that raises when no passage was found.
RetrieveRaisesOnEmpty(question, top_k) ==
    LET passages == SimilaritySearch(store.documents, question, top_k)
    IN  IF passages = <<>> THEN PipeOut("LookupError", <<question, top_k>>, <<>>, <<>>, EmptyDict)
        ELSE PipeOut("RetrievedContext", <<question, top_k>>, question, passages, EmptyDict)

\* retrieve(question, top_k)
Retrieve(question, top_k) ==
    PipeOut("RetrievedContext", <<question, top_k>>, question,
            SimilaritySearch(store.documents, question, top_k), EmptyDict)

\* A describe() that mixes up the two chunk parameters.
DescribeSwapped(p) ==
    PipeOut("dict", <<>>, <<>>, <<>>,
            [knowledge_base |-> p.path, chunk_size |-> p.chunk_overlap,
             chunk_overlap |-> p.chunk_size])

\* describe()
Describe(p) ==
    PipeOut("dict", <<>>, <<>>, <<>>,
            [knowledge_base |-> p.path, chunk_size |-> p.chunk_size,
             chunk_overlap |-> p.chunk_overlap])

\* ingest_corpus([file]) on the pipeline `p`, up to its call of chunk_text:
\* reading a directory raises IsADirectoryError, out of ingest_corpus and,
\* during the construction, out of __init__; an empty content is skipped
\* and add_documents([]) stores nothing; any other content is chunked.
IngestCorpus(p, file) ==
    CASE FileKind(file) = "dir" ->
            /\ pipe' = [p EXCEPT !.made = IF p.made = "constructing" THEN "raised" ELSE @,
                                 !.out = PipeOut("IsADirectoryError", <<>>, <<>>, <<>>, EmptyDict)]
            /\ UNCHANGED <<ck, store>>
      [] FileKind(file) # "dir" /\ LoadTextFile(file) = <<>> ->
            /\ pipe' = [p EXCEPT !.made = "yes",
                                 !.out = PipeOut("None", <<>>, <<>>, <<>>, EmptyDict)]
            /\ store' = AddAll(store, <<>>)
            /\ ck' = ck
      [] OTHER ->
            /\ pipe' = [p EXCEPT !.out = NoOut]
            /\ ck' = [pc |-> IF Strip(LoadTextFile(file)) = <<>> THEN "returned" ELSE "loop",
                      text |-> LoadTextFile(file), chunk_size |-> p.chunk_size,
                      overlap |-> p.chunk_overlap,
                      words |-> Split(Strip(LoadTextFile(file))), start |-> 0,
                      chunks |-> <<>>]
            /\ store' = store

\* HealthcareRAGPipeline(knowledge_base_path, chunk_size, chunk_overlap)
PipeInit(path, chunk_size, chunk_overlap) ==
    /\ pipe.made = "no"
    /\ ck.pc = "idle"
    /\ LET p == [made |-> "constructing", given |-> path, path |-> PathStr(path),
                 chunk_size |-> chunk_size, chunk_overlap |-> chunk_overlap,
                 ingests |-> 0, out |-> NoOut]
       IN  IF FileKind(p.path) = "absent"
           THEN pipe' = [p EXCEPT !.made = "yes"] /\ UNCHANGED <<ck, store>>
           ELSE IngestCorpus(p, p.path)
    /\ UNCHANGED <<graphVars, srch>>

\* A caller's ingest_corpus([file]) on the constructed pipeline.
PipeIngest(file) ==
    /\ pipe.made = "yes"
    /\ ck.pc = "idle"
    /\ pipe.ingests < MaxIngests
    /\ IngestCorpus([pipe EXCEPT !.ingests = @ + 1], PathStr(file))
    /\ UNCHANGED <<graphVars, srch>>

\* chunk_text has returned: every chunk becomes a DocumentChunk and the
\* list goes to vector_store.add_documents.
PipeIngestEnd ==
    /\ pipe.made \in {"constructing", "yes"}
    /\ ck.pc = "returned"
    /\ store' = AddAll(store, [i \in 1..Len(ck.chunks) |-> ck.chunks[i].text])
    /\ ck' = IdleChunker
    /\ pipe' = [pipe EXCEPT !.made = "yes",
                            !.out = PipeOut("None", <<>>, <<>>, <<>>, EmptyDict)]
    /\ UNCHANGED <<graphVars, srch>>

PipeRetrieve(question, top_k) ==
    /\ pipe.made = "yes"
    /\ ck.pc = "idle"
    /\ pipe' = [pipe EXCEPT !.out = Retrieve(question, top_k)]
    /\ UNCHANGED <<graphVars, ck, store, srch>>

PipeDescribe ==
    /\ pipe.made = "yes"
    /\ ck.pc = "idle"
    /\ pipe' = [pipe EXCEPT !.out = Describe(pipe)]
    /\ UNCHANGED <<graphVars, ck, store, srch>>

NextPipe ==
    \/ \E path \in Paths, c \in 0..MaxChunkSize, o \in 0..MaxOverlap : PipeInit(path, c, o)
    \/ \E file \in Paths : PipeIngest(file)
    \/ ChunkLoop
    \/ ChunkReturn
    \/ PipeIngestEnd
    \/ \E q \in QueryTexts, k \in 0..MaxK : PipeRetrieve(q, k)
    \/ PipeDescribe

SpecPipe == Init /\ [][NextPipe]_vars

\* C23: a pipeline constructed on a path where nothing is exists, its index
\* is empty, and until the caller ingests something every retrieve returns
\* a RetrievedContext whose question is the query asked and whose passages
\* are empty; no call on it raises.
C23_MissingCorpusIsUsable ==
    FileKind(PathStr(pipe.given)) = "absent" /\ pipe.made # "no" /\ pipe.ingests = 0 =>
        /\ pipe.made = "yes"
        /\ store.documents = <<>>
        /\ pipe.out.kind \in {"", "RetrievedContext", "dict"}
        /\ pipe.out.kind = "RetrievedContext" =>
              /\ pipe.out.question = pipe.out.arg[1]
              /\ pipe.out.passages = <<>>

\* retrieve("ba ab", 3) on the pipeline constructed on "missing.md".
C23_Witness ==
    /\ pipe.made = "yes"
    /\ pipe.given = "missing.md"
    /\ pipe.ingests = 0
    /\ pipe.out.kind = "RetrievedContext"
    /\ pipe.out.arg = <<Join(<<<<"b", "a">>, <<"a", "b">>>>), 3>>

\* C24: the construction of a pipeline on the empty path "" comes to an
\* end with the pipeline made, and its describe and retrieve calls return
\* the configuration and no passage.
C24_EmptyPathConstructs ==
    pipe.given = "" /\ pipe.made \notin {"no", "constructing"} =>
        /\ pipe.made = "yes"
        /\ pipe.out.kind = "dict" => DOMAIN pipe.out.fields # {}
        /\ pipe.out.kind = "RetrievedContext" => pipe.out.passages = <<>>

\* C25 as stated: the record of describe() has exactly the fields source,
\* chunk_size and chunk_overlap.
C25_DescribeHasSourceField ==
    pipe.out.kind = "dict" =>
        DOMAIN pipe.out.fields = {"source", "chunk_size", "chunk_overlap"}

\* C25: the record of describe() has exactly the fields knowledge_base,
\* chunk_size and chunk_overlap; knowledge_base is the given path as
\* str(Path(...)) writes it, the other two are the chunk parameters given
\* at construction; the configuration never changes once the pipeline is
\* made, and a describe() step changes neither it nor the index.
C25_DescribeIsConfiguration ==
    /\ [](pipe.out.kind = "dict" =>
            /\ DOMAIN pipe.out.fields = {"knowledge_base", "chunk_size", "chunk_overlap"}
            /\ pipe.out.fields["knowledge_base"] = PathStr(pipe.given)
            /\ pipe.out.fields["chunk_size"] = pipe.chunk_size
            /\ pipe.out.fields["chunk_overlap"] = pipe.chunk_overlap)
    /\ [][/\ pipe.made # "no" =>
                /\ pipe'.given = pipe.given
                /\ pipe'.path = pipe.path
                /\ pipe'.chunk_size = pipe.chunk_size
                /\ pipe'.chunk_overlap = pipe.chunk_overlap
          /\ pipe'.out.kind = "dict" => store' = store /\ ck' = ck]_vars

\* describe() after an ingest_corpus call that followed the construction on
\* "./kb.md" with chunk_size 2 and chunk_overlap 1.
C25_Witness ==
    /\ pipe.out.kind = "dict"
    /\ pipe.given = "./kb.md"
    /\ pipe.ingests = 1
    /\ pipe.out.fields["chunk_size"] = 2
    /\ pipe.out.fields["chunk_overlap"] = 1
    /\ Len(store.documents) > 2

-----------------------------------------------------------------------------
(* Tokens and vectors.                                                     *)

\* The runs of `text` that start with a letter and go on with letters,
\* digits, hyphens or underscores, of any length, from left to right: a run
\* starts at a letter that no letter precedes within the same stretch of
\* such characters, and ends where the stretch ends.
LetterRuns(text) ==
    LET letter(c) == c \in {"a", "b"}
        inner(c) == letter(c) \/ c \in {"1", "2", "3", "_", "-"}
        starts == {i \in 1..Len(text) :
                     /\ letter(text[i])
                     /\ ~\E j \in 1..(i-1) :
                           letter(text[j]) /\ \A m \in j..i : inner(text[m])}
        nth(k) == CHOOSE i \in starts : Cardinality({j \in starts : j <= i}) = k
        stop(i) == CHOOSE j \in i..Len(text) :
                        /\ \A m \in i..j : inner(text[m])
                        /\ j = Len(text) \/ ~inner(text[j+1])
    IN  [k \in 1..Cardinality(starts) |-> SubSeq(text, nth(k), stop(nth(k)))]

\* C26: the tokens of the text a search is made for are exactly its runs
\* that start with a letter, those of one letter included.
C26_EveryLetterRunIsAToken ==
    srch[1].pc # "idle" =>
        Tokenize(srch[1].query) = LetterRuns(Lower(srch[1].query))

\* The sum of the squares of the weights of `vector` is 1: the weights are
\* the counts divided by sqrt(n2), so the squares of the counts sum to n2.
UnitNorm(vector) ==
    SumProducts(vector.counts, vector.counts, DOMAIN vector.counts) = vector.n2

\* C27 as stated: the vector of any non-empty text has unit norm.
C27_NonEmptyTextUnitNorm ==
    srch[1].pc # "idle" /\ srch[1].query # <<>> =>
        UnitNorm(Normalize(Counter(Tokenize(srch[1].query))))

\* C27: the vector of a text that has at least one token has unit norm, and
\* that of a text without tokens is the empty mapping; every vector stored
\* in the index has at least one weight and unit norm.
C27_TokenTextUnitNorm ==
    LET q == srch[1].query
        v == Normalize(Counter(Tokenize(q)))
    IN  /\ srch[1].pc # "idle" =>
              IF Tokenize(q) # <<>> THEN DOMAIN v.counts # {} /\ UnitNorm(v)
              ELSE DOMAIN v.counts = {}
        /\ \A i \in 1..Len(store.documents) :
              /\ DOMAIN store.documents[i].vector.counts # {}
              /\ UnitNorm(store.documents[i].vector)

\* The index holds "ab ab ba", whose counts are 2 and 1, and a search for
\* "ba ab" is under way.
C27_Witness ==
    /\ srch[1].pc = "scoring"
    /\ Len(Tokenize(srch[1].query)) = 2
    /\ \E i \in 1..Len(store.documents) :
          \E t \in DOMAIN store.documents[i].vector.counts :
              store.documents[i].vector.counts[t] = 2

-----------------------------------------------------------------------------
(* Terminal names: a graph whose step names, edge targets and entry point  *)
(* may be the empty string or END.                                         *)

TerminalNames == {"", END}

\* _CompiledGraph(entry_point, nodes, edges) made without compile(), which
\* refuses an empty entry point, over the builder's two dicts.
DirectGraph(entry) ==
    /\ AllIdle
    /\ compiled' = GraphVal("graph", entry, builder.nodes, builder.edges)
    /\ UNCHANGED <<builder, dictHeap, inv, heap, cin, cout, blog, orch, ragVars>>

NextTerminal ==
    \/ \E n \in {"A"} \cup TerminalNames : AddNode(n, "same")
    \/ \E s \in {"A"} \cup TerminalNames, t \in {"A"} \cup TerminalNames : AddEdge(s, t)
    \/ \E n \in {"A"} \cup TerminalNames : SetEntryPoint(n)
    \/ Compile
    \/ \E n \in {"A"} \cup TerminalNames : DirectGraph(n)
    \/ Invoke(1)
    \/ InvokeReturn(1)
    \/ InvokeUnknown(1)
    \/ InvokeCall(1)
    \/ RunCoerce(1)
    \/ RunAssert(1)
    \/ RunEnd(1)

SpecTerminal == Init /\ [][NextTerminal]_vars

\* invoke is a synchronous loop: an iteration that can be taken is taken.
FairSpecTerminal ==
    SpecTerminal /\ WF_vars(InvokeReturn(1) \/ InvokeUnknown(1) \/ InvokeCall(1))

AtTerminal(i) == inv[i].status = "running" /\ inv[i].current \in TerminalNames

\* C28: when the name invoke is at, the entry point or the target of the
\* edge just followed, is the empty string or END, the next thing invoke
\* does is to return, with no error and no further call, and it does so;
\* no step function is ever called under either name, registered or not,
\* and no unknown-step error names either.
C28_EmptyAndEndAreTerminal ==
    /\ [](/\ \A k \in 1..Len(inv[1].calls) : inv[1].calls[k].node \notin TerminalNames
          /\ inv[1].error.type = "ValueError" => inv[1].error.node \notin TerminalNames)
    /\ [][AtTerminal(1) /\ inv'[1] # inv[1] =>
              /\ inv'[1].status = "returned"
              /\ inv'[1].result = inv[1].state
              /\ inv'[1].calls = inv[1].calls
              /\ inv'[1].error = NoError]_vars
    /\ (AtTerminal(1) ~> inv[1].status = "returned")

\* invoke returned after one call of A, whose edge leads to the empty
\* name, under which a step function is registered.
C28_Witness ==
    /\ inv[1].status = "returned"
    /\ NodeSeq(inv[1].calls) = <<"A">>
    /\ DictGet(Edges, "A", END) = ""
    /\ "" \in DOMAIN Nodes
    /\ END \in DOMAIN Nodes

-----------------------------------------------------------------------------
(* The shared state along the orchestrator chain.                          *)

\* The output field that belongs to each step of the chain.
OwnField ==
    [n \in DOMAIN OrchNodes |->
        CASE n = "triage" -> "triage"
          [] n = "eligibility" -> "program_eligibility"
          [] n = "facility" -> "facility_finder"
          [] n = "follow_up" -> "follow_up"
          [] n = "analytics" -> "health_analytics"
          [] OTHER -> "knowledge"]

\* C29: while a run is under way its state object changes only when a step
\* function returns, and then in one field only, the output field of the
\* step called: patient_query, citizen_profile, retrieved_context and the
\* other five outputs keep their values; an output that is set keeps its
\* value to the end of the run.
C29_StepWritesOwnFieldOnly ==
    [][heap[1] # <<>> /\ heap'[1] # <<>> =>
          LET old == heap[1][1].fields
              new == heap'[1][1].fields
              changed == {f \in DOMAIN old : new[f] # old[f]}
          IN  /\ DOMAIN new = DOMAIN old
              /\ Len(heap'[1]) = 1
              /\ changed # {} =>
                    /\ inv[1].status = "running"
                    /\ Len(inv'[1].calls) = Len(inv[1].calls) + 1
                    /\ changed = {OwnField[inv[1].current]}
              /\ \A o \in OutputFields : old[o].t = "AgentOutput" => new[o] = old[o]]_vars

\* The run for "i live in Multan" has made its six steps: all six outputs
\* are set and the three inputs are as run() built them.
C29_Witness ==
    /\ inv[1].status = "returned"
    /\ NodeSeq(inv[1].calls) = OrchOrder
    /\ \A o \in OutputFields : heap[1][1].fields[o].t = "AgentOutput"
    /\ heap[1][1].fields["patient_query"] = PyStrOf("i live in Multan")
    /\ heap[1][1].fields["citizen_profile"] = PyDictOf("city=Multan")

\* The facility step has run on the state of this run.
FacilityDone == Len(inv[1].calls) >= 3 /\ heap[1] # <<>>

\* C30: once the facility step has run on a profile whose city is missing
\* or blank, it has returned without an error whichever collaborator was
\* due to fail, neither recommend_facilities nor the generation service was
\* called by it, facility_finder is the placeholder with needs_city true
\* and no facility options, and the chain goes on: follow_up is the next
\* step, then analytics and knowledge, and only a failure of one of these
\* three ends the run before the sixth step.
C30_NoCityPlaceholder ==
    LET f == inv[1]
        seq == NodeSeq(f.calls)
    IN  FacilityDone /\ ~CityGiven(heap[1][1].fields["citizen_profile"]) =>
            /\ f.calls[3].node = "facility" /\ f.calls[3].ok
            /\ \A k \in 1..Len(orch.ext) : orch.ext[k].by # "_facility_node"
            /\ heap[1][1].fields["facility_finder"] =
                    PyVal("AgentOutput", "facility_finder", "facility_options=[],needs_city=True")
            /\ IsPrefix(seq, OrchOrder)
            /\ f.status = "running" /\ Len(seq) < 6 => f.current = OrchOrder[Len(seq) + 1]
            /\ Returned(1) => seq = OrchOrder
            /\ f.status = "raised" =>
                    /\ Len(seq) > 3
                    /\ ~LastOk(1)
                    /\ orch.fail = OrchNodes[seq[Len(seq)]]

\* The run of a profile with a blank city, in which the generation service
\* fails for the facility step only, has made all six steps.
C30_Witness ==
    /\ FacilityDone
    /\ ProfileCity(heap[1][1].fields["citizen_profile"]) = " "
    /\ orch.fail = "_facility_node"
    /\ inv[1].status = "returned"
    /\ NodeSeq(inv[1].calls) = OrchOrder
    /\ Len(orch.ext) = 10

====
